---- MODULE Spec2Model ----
(***************************************************************************)
(* The generation pipeline of meta_generator: GenerationHandler.handle     *)
(* with its prompter, processor and validator, as a state machine.         *)
(* One GenerationHandler instance is shared by the calling threads; each   *)
(* call of handle() keeps its own frame of locals.                         *)
(***************************************************************************)
EXTENDS Integers, Sequences, FiniteSets, TLC

VARIABLES
    retries,            \* GenerationHandler.retries
    sleep_time,         \* GenerationHandler.sleep_time
    processor,          \* class of GenerationHandler.processor
    validator,          \* class of GenerationHandler.validator
    template,           \* TemplatePrompter.template
    responses,          \* raw texts the model backend can answer with
    active,             \* threads that call handle()
    pc,                 \* per thread: position inside handle()
    input_data,         \* per thread: argument of handle()
    formatted_prompt,   \* per thread: local of handle()
    attempt,            \* per frame: local of handle()
    last_error,         \* per frame: local of handle()
    response,           \* per thread: local of handle()
    processed_response, \* per thread: local of handle()
    outcome,            \* per thread: value returned or error raised
    genCalls,           \* per thread: model.generate invocations of this call
    genPrompts,         \* per thread: prompts handed to model.generate
    procCalls,          \* per thread: processor.process invocations
    valCalls,           \* per thread: validator.validate invocations
    sleeps,             \* per thread: durations passed to time.sleep
    log,                \* per thread: error raised by each failed attempt
    validated,          \* per thread: last validate call <<attempt, value, verdict>>
    prev,               \* per thread: how the previous handle() call ended
    model,              \* class of GenerationHandler.model
    config_api,         \* the "api" section of the configuration
    call_kwargs,        \* keyword arguments the callers pass to handle()
    kwargs,             \* per thread: **kwargs of handle()
    outbound,           \* per thread: payloads sent to chat.completions.create
    driver_pc,          \* position inside process_input_file
    input_file,         \* content of the input file: a list of records
    entries,            \* process_input_file: the loaded input_data list
    index,              \* process_input_file: entries done
    handled,            \* handle() calls of the batch: <<record, outcome>>
    results,            \* process_input_file: the results list
    written,            \* content of the output file
    ext_pc,             \* position of the caller of the processor
    ext_processor,      \* class of the processor called
    extract_json,       \* CodeBlockExtractorProcessor.extract_json
    text,               \* raw response handed to process()
    ext_result,         \* what process(text) returned or raised
    ext_wrapped,        \* what process() of the fenced text returned or raised
    fmt_pc,             \* position of the caller of smart_format
    fmt_template,       \* smart_format: template
    fmt_variables,      \* smart_format: variables
    fmt_result,         \* what smart_format returned or raised
    template_file,      \* the file at TemplatePrompter.template_path
    rl_calls,           \* reload_template calls made
    rl_result,          \* what the last reload_template returned or raised
    rl_before,          \* TemplatePrompter.template when that call began
    fp_pc,              \* position inside TemplatePrompter.format_prompt
    fp_variables,       \* format_prompt: variables
    fp_result,          \* what format_prompt returned or raised
    fp_seen,            \* templates in memory while the call ran
    fp_at,              \* rl_calls when the call began
    req_template,       \* the template get_required_variables read
    req_result,         \* what get_required_variables returned
    jv_pc,              \* position of the builder of the JSON validator
    jv_require,         \* config validators.json.require_schema
    jv_schema_arg,      \* the schema argument of __init__
    jv_schema_file,     \* the file at config validators.json.schema_path
    jv_built,           \* what JsonResponseValidator(...) returned or raised
    jv_value,           \* the processed response handed to validate()
    jv_verdict          \* what validate() returned or raised

backendVars == <<model, config_api, call_kwargs, kwargs, outbound>>
driverVars == <<driver_pc, input_file, entries, index, handled, results,
                written>>
extractorVars == <<ext_pc, ext_processor, extract_json, text, ext_result,
                   ext_wrapped>>
formatterVars == <<fmt_pc, fmt_template, fmt_variables, fmt_result>>
prompterVars == <<template_file, rl_calls, rl_result, rl_before, fp_pc,
                  fp_variables, fp_result, fp_seen, fp_at, req_template,
                  req_result>>
validatorVars == <<jv_pc, jv_require, jv_schema_arg, jv_schema_file, jv_built,
                   jv_value, jv_verdict>>
handlerVars == <<retries, sleep_time, processor, validator, template,
                 responses, active, pc, input_data, formatted_prompt, attempt,
                 last_error, response, processed_response, outcome, genCalls,
                 genPrompts, procCalls, valCalls, sleeps, log, validated,
                 prev>>

\* the handler's state apart from the prompter's template
handlerOther == <<retries, sleep_time, processor, validator, responses,
                  active, pc, input_data, formatted_prompt, attempt,
                  last_error, response, processed_response, outcome, genCalls,
                  genPrompts, procCalls, valCalls, sleeps, log, validated,
                  prev>>

vars == <<handlerVars, backendVars, driverVars, extractorVars, formatterVars,
          prompterVars, validatorVars>>

-----------------------------------------------------------------------------
(* Bounds *)

MaxRetries == 3
MaxRetriesConc == 2
MaxRetriesBackend == 2
MaxRetriesBatch == 2
MaxBatch == 2
MaxSegments == 2
MaxTemplateLen == 5
MaxReloads == 2

(* Program constants *)

DEFAULT_RETRIES == 3
DEFAULT_SLEEP_TIME == 2

Threads == {1, 2}

-----------------------------------------------------------------------------
(* Python values.  A value is a pair <<type tag, payload>>, the payload a   *)
(* sequence of text pieces.                                                *)

PyNone == <<"None", <<>>>>
PyStr(s) == <<"str", s>>
PyDict(s) == <<"dict", s>>

NoError == "None"
GenerationError == "Exception: generation failed"
EmptyResponseError == "ValueError: Empty response from model"
ProcessorError == "ValueError: Processor error"
InvalidResponseError == "ValueError: Invalid response"
GenericError == "Exception: Generation failed after all retries"
NoTemplateError == "ValueError: No template loaded. Call load_template() first."
KeyErrorOf(var) == "KeyError: Missing required template variable: " \o var

-----------------------------------------------------------------------------
(* json.loads on a text given as a sequence of pieces *)

Whitespace == {" ", "\n"}
JsonObjectTexts == {"{\"word\":\"x\"}"}
JsonNullText == "null"

RECURSIVE lstrip(_)
lstrip(s) ==
    IF s # <<>> /\ Head(s) \in Whitespace THEN lstrip(Tail(s)) ELSE s

RECURSIVE rstrip(_)
rstrip(s) ==
    IF s # <<>> /\ s[Len(s)] \in Whitespace
    THEN rstrip(SubSeq(s, 1, Len(s) - 1))
    ELSE s

strip(s) == rstrip(lstrip(s))

JSONDecodeError == <<"JSONDecodeError", <<>>>>

\* the piece that stands for three backticks
Fence == "<fence>"
JsonTag == "json"

\* an object with one string member, written in pieces: the text up to the
\* string's opening quote, the string's content, the closing quote and brace
OpenStr == "{\"a\":\""
CloseStr == "\"}"

\* the pieces a JSON string may hold unescaped: no quote, no line break
StringSafe == {Fence, JsonTag, " ", "not json", JsonNullText}

json_loads(s) ==
    LET core == strip(s) IN
    IF Len(core) = 1 /\ core[1] \in JsonObjectTexts THEN PyDict(core)
    ELSE IF core = <<JsonNullText>> THEN PyNone
    ELSE IF /\ Len(core) >= 2
            /\ core[1] = OpenStr
            /\ core[Len(core)] = CloseStr
            /\ \A i \in 2..(Len(core) - 1) : core[i] \in StringSafe
         THEN PyDict(core)
    ELSE JSONDecodeError

-----------------------------------------------------------------------------
(* Templates: a sequence of symbols; "{" and "}" are the braces, every      *)
(* other symbol is a run of text without braces.                           *)

Lit(s) == <<s>>
Var(n) == <<"{", n, "}">>
Esc(n) == <<"{", "{", n, "}", "}">>

Braces == {"{", "}"}

Raise(e) == <<"raise", e>>
Return(v) == <<"return", v>>
Raises(r) == r[1] = "raise"

FormatValueError == "ValueError: malformed format string"
FormatIndexError == "IndexError: Replacement index 0 out of range"
FormatKeyError(name) == "KeyError: " \o name

\* "".join(s)
RECURSIVE join(_)
join(s) == IF s = <<>> THEN "" ELSE Head(s) \o join(Tail(s))

\* str.replace(b + b, r): left to right, without overlap
RECURSIVE replace_pairs(_, _, _)
replace_pairs(s, b, r) ==
    IF s = <<>> THEN <<>>
    ELSE IF Len(s) >= 2 /\ s[1] = b /\ s[2] = b
         THEN <<r>> \o replace_pairs(Tail(Tail(s)), b, r)
         ELSE <<Head(s)>> \o replace_pairs(Tail(s), b, r)

\* the length of the longest prefix of s without a brace
RECURSIVE NameLen(_)
NameLen(s) ==
    IF s = <<>> \/ Head(s) \in Braces THEN 0 ELSE 1 + NameLen(Tail(s))

\* re.findall(r'\{([^{}]+)\}', s)
RECURSIVE findall_variables(_)
findall_variables(s) ==
    IF s = <<>> THEN <<>>
    ELSE IF Head(s) = "{"
         THEN LET rest == Tail(s)
                  n == NameLen(rest)
              IN IF n >= 1 /\ Len(rest) > n /\ rest[n + 1] = "}"
                 THEN <<join(SubSeq(rest, 1, n))>>
                        \o findall_variables(SubSeq(rest, n + 2, Len(rest)))
                 ELSE findall_variables(rest)
         ELSE findall_variables(Tail(s))

\* the two replacements and the search, each applied to the value of the
\* one before
extract_variables(tpl) ==
    CHOOSE found \in
        {findall_variables(closed) :
            closed \in {replace_pairs(opened, "}", ">>>") :
                          opened \in {replace_pairs(tpl, "{", "<<<")}}} : TRUE

\* a piece of output put before the rest of the output, an error of the
\* rest passed on
Prepend(x, r) == IF Raises(r) THEN r ELSE Return(<<x>> \o r[2])

\* template.format(**variables): doubled braces are literal braces, a field
\* is looked up by name, a stray brace or an empty field is an error
RECURSIVE str_format(_, _)
str_format(tpl, variables) ==
    IF tpl = <<>> THEN Return(<<>>)
    ELSE IF Head(tpl) = "{"
         THEN IF Len(tpl) >= 2 /\ tpl[2] = "{"
              THEN Prepend("{", str_format(Tail(Tail(tpl)), variables))
              ELSE LET rest == Tail(tpl)
                       n == NameLen(rest)
                       name == join(SubSeq(rest, 1, n))
                   IN IF Len(rest) = n \/ rest[n + 1] = "{"
                      THEN Raise(FormatValueError)
                      ELSE IF n = 0 THEN Raise(FormatIndexError)
                      ELSE IF name \notin DOMAIN variables
                           THEN Raise(FormatKeyError(name))
                           ELSE Prepend(variables[name],
                                    str_format(SubSeq(rest, n + 2, Len(rest)),
                                               variables))
    ELSE IF Head(tpl) = "}"
         THEN IF Len(tpl) >= 2 /\ tpl[2] = "}"
              THEN Prepend("}", str_format(Tail(Tail(tpl)), variables))
              ELSE Raise(FormatValueError)
    ELSE Prepend(Head(tpl), str_format(Tail(tpl), variables))

smart_format(tpl, variables) ==
    LET required_variables == extract_variables(tpl)
        missing == {i \in 1..Len(required_variables) :
                        required_variables[i] \notin DOMAIN variables}
    IN IF missing # {}
       THEN LET first == CHOOSE i \in missing : \A j \in missing : i <= j
            IN Raise(KeyErrorOf(required_variables[first]))
       ELSE str_format(tpl, variables)

format_prompt(tpl, variables) ==
    IF tpl = <<>> THEN Raise(NoTemplateError)
    ELSE smart_format(tpl, variables)

-----------------------------------------------------------------------------
(* Processors and validators *)

DefaultProcessor_process(resp) ==
    IF resp = <<>> THEN {Raise(EmptyResponseError)}
    ELSE LET parsed == json_loads(resp) IN
         IF parsed = JSONDecodeError THEN {Return(PyStr(resp))}
         ELSE {Return(parsed)}

\* the test double: process_func unset parses JSON and falls back to the
\* text; a process_func may raise (failing_process) or pass the text through
MockProcessor_process(resp) ==
    LET parsed == json_loads(resp) IN
    {Raise(ProcessorError), Return(PyStr(resp)),
     IF parsed = JSONDecodeError THEN Return(PyStr(resp)) ELSE Return(parsed)}

\* s[a..b] is whitespace only
AllWhitespace(s, a, b) == \A i \in a..b : s[i] \in Whitespace

\* the line breaks \s*\n can end on when it starts at position j
OpeningBreaks(s, j) ==
    {k \in j..Len(s) : s[k] = "\n" /\ AllWhitespace(s, j, k - 1)}

\* the line breaks from position c on that \n\s* and the fence can follow
ClosingBreaks(s, c) ==
    {e \in c..Len(s) :
        /\ s[e] = "\n"
        /\ \E f \in (e + 1)..Len(s) :
              s[f] = Fence /\ AllWhitespace(s, e + 1, f - 1)}

\* the ways json_pattern matches s from position i: <<g, k, e>> with g the
\* length of the tag taken, k the position of the line break before the
\* content and e the position of the line break after it
JsonPatternMatches(s, i) ==
    IF s[i] # Fence THEN {}
    ELSE UNION { UNION { {<<g, k, e>> : e \in ClosingBreaks(s, k + 1)} :
                           k \in OpeningBreaks(s, i + 1 + g) } :
                   g \in {0} \cup (IF i + 1 <= Len(s) /\ s[i + 1] = JsonTag
                                   THEN {1} ELSE {}) }

\* the order the regex engine tries them in: the optional tag and \s* are
\* greedy, the content is lazy
TriedBefore(m, n) ==
    \/ m[1] > n[1]
    \/ m[1] = n[1] /\ m[2] > n[2]
    \/ m[1] = n[1] /\ m[2] = n[2] /\ m[3] <= n[3]

\* matches[0] of re.findall(json_pattern, text, re.IGNORECASE)
JsonPatternFirst(s) ==
    LET starts == {i \in 1..Len(s) : JsonPatternMatches(s, i) # {}}
        i == CHOOSE x \in starts : \A y \in starts : x <= y
        m == CHOOSE x \in JsonPatternMatches(s, i) :
                 \A y \in JsonPatternMatches(s, i) : TriedBefore(x, y)
    IN SubSeq(s, m[2] + 1, m[3] - 1)

\* matches[0] of re.findall(generic_pattern, text)
GenericPatternFirst(s) ==
    LET fences == {i \in 1..Len(s) : s[i] = Fence}
        a == CHOOSE x \in fences : \A y \in fences : x <= y
        b == CHOOSE x \in fences \ {a} : \A y \in fences \ {a} : x <= y
    IN SubSeq(s, a + 1, b - 1)

\* CodeBlockExtractorProcessor._extract_from_codeblocks
extract_from_codeblocks(s) ==
    IF \E i \in 1..Len(s) : JsonPatternMatches(s, i) # {}
    THEN strip(JsonPatternFirst(s))
    ELSE IF Cardinality({i \in 1..Len(s) : s[i] = Fence}) >= 2
    THEN strip(GenericPatternFirst(s))
    ELSE <<>>

\* extracted_content of process(): the block found, else the whole response
Candidate(resp) ==
    LET found == extract_from_codeblocks(resp) IN
    IF found = <<>> THEN resp ELSE found

\* a parse failure passed on to the caller
ParseOrRaise(content) ==
    LET parsed == json_loads(content) IN
    IF parsed = JSONDecodeError THEN Raise("JSONDecodeError")
    ELSE Return(parsed)

\* try: return json.loads(extracted_content)
\* except json.JSONDecodeError: return extracted_content
ParseOrText(content) ==
    LET parsed == json_loads(content) IN
    IF parsed = JSONDecodeError THEN Return(PyStr(content))
    ELSE Return(parsed)

\* an extractor without the guard for the empty response
CodeBlockExtractorProcessor_unguarded(json, resp) ==
    IF json THEN ParseOrRaise(Candidate(resp))
    ELSE Return(PyStr(Candidate(resp)))

CodeBlockExtractorProcessor_process(json, resp) ==
    IF resp = <<>> THEN Return(PyDict(<<>>))
    ELSE IF json THEN ParseOrText(Candidate(resp))
    ELSE Return(PyStr(Candidate(resp)))

\* create_components builds the extractor with extract_json=True
process(kind, resp) ==
    IF kind = "DefaultProcessor" THEN DefaultProcessor_process(resp)
    ELSE IF kind = "CodeBlockExtractorProcessor"
    THEN {CodeBlockExtractorProcessor_process(TRUE, resp)}
    ELSE MockProcessor_process(resp)

\* a validator that accepts None as well
DefaultValidatorAlwaysTrue(v) == {TRUE}

DefaultValidator_validate(v) == {v # PyNone}

\* the test double: validate_func unset accepts; a validate_func decides
MockValidator_validate(v) == {TRUE, FALSE}

JsonTypeError ==
    "TypeError: the JSON object must be str, bytes or bytearray, not NoneType"

\* no schema is configured: a dict is valid, a string is valid when it
\* parses; json.loads(None) raises instead of giving a verdict
JsonResponseValidator_validate(v) ==
    IF v[1] = "dict" THEN {TRUE}
    ELSE IF v[1] = "str" THEN {json_loads(v[2]) # JSONDecodeError}
    ELSE {}

validate(kind, v) ==
    IF kind = "DefaultValidator" THEN DefaultValidator_validate(v)
    ELSE IF kind = "JsonResponseValidator"
    THEN JsonResponseValidator_validate(v)
    ELSE MockValidator_validate(v)

\* the errors validate() raises instead of returning
validate_raises(kind, v) ==
    IF kind = "JsonResponseValidator" /\ v = PyNone THEN {JsonTypeError}
    ELSE {}

-----------------------------------------------------------------------------
(* The inputs *)

Records ==
    { [word |-> "cat", part_of_speech |-> "noun"],
      [word |-> "cat"] }

Templates ==
    { <<>>,
      Lit("Define ") \o Var("word"),
      Var("word") \o Lit(" as ") \o Var("part_of_speech") \o Esc("json") }

RawResponses ==
    { <<>>, <<"null">>, <<"{\"word\":\"x\"}">>, <<"not json">> }

SleepTimes == {1}

\* the "handler" section of the configuration: any of its keys may be absent
HandlerConfigs(maxRetries) ==
    { c \in UNION { [D -> 0..maxRetries \cup SleepTimes] :
                        D \in SUBSET {"retries", "sleep_time"} } :
        /\ "retries" \in DOMAIN c => c["retries"] \in 0..maxRetries
        /\ "sleep_time" \in DOMAIN c => c["sleep_time"] \in SleepTimes }

\* dict.get(key, default)
Get(d, key, default) == IF key \in DOMAIN d THEN d[key] ELSE default

ProcessorKinds == {"DefaultProcessor", "MockProcessor"}
ValidatorKinds == {"DefaultValidator", "MockValidator"}

-----------------------------------------------------------------------------
(* The model backends *)

ParamNames == {"model", "max_tokens", "temperature", "timeout"}

OpenAI_DEFAULT_PARAMS ==
    [model |-> "gpt-3.5-turbo", max_tokens |-> "1000", temperature |-> "0.7",
     timeout |-> "30"]

Nebius_DEFAULT_PARAMS ==
    [model |-> "deepseek-ai/DeepSeek-V3-0324", max_tokens |-> "1000",
     temperature |-> "0.7", timeout |-> "30"]

OpenAIConfigError == "ValueError: Invalid configuration for OpenAI model"
NebiusConfigError == "ValueError: Invalid configuration for NebiusModel"
UnexpectedKeywordError ==
    "TypeError: generate() got an unexpected keyword argument"
APIError == "APIError: request failed"
OpenAIAPIError == "Exception: OpenAI API error: request failed"

ConfigErrors == {OpenAIConfigError, NebiusConfigError}

\* the "api" section: the model name and the "params" subsection, any key
\* absent; the key is present, or the constructor would have raised
ApiConfigs ==
    { c \in UNION { [D -> {"", "m", "50", "1", "5"}] : D \in SUBSET ParamNames } :
        /\ "model" \in DOMAIN c => c["model"] \in {"", "m"}
        /\ "max_tokens" \in DOMAIN c => c["max_tokens"] = "50"
        /\ "temperature" \in DOMAIN c => c["temperature"] = "1"
        /\ "timeout" \in DOMAIN c => c["timeout"] = "5" }

\* handle(record, **kwargs): no keyword, or one parameter overridden
CallKwargs ==
    { <<>>, [model |-> "k"], [max_tokens |-> "9"], [temperature |-> "0"],
      [timeout |-> "2"] }

\* initialize_generation_params: the configured value, else the default
generation_params(defaults, api) ==
    [k \in ParamNames |-> Get(api, k, defaults[k])]

\* the payload of one chat-completion request
Payload(params, prompt) ==
    [model |-> params["model"], messages |-> prompt,
     max_tokens |-> params["max_tokens"],
     temperature |-> params["temperature"], timeout |-> params["timeout"]]

\* a client that sends the request again when it failed
CallWithRetry(payload, resps) ==
    {[result |-> Raise(APIError), sent |-> <<payload, payload>>]}
    \cup {[result |-> Return(r), sent |-> <<payload>>] : r \in resps}

\* self.client.chat.completions.create(...): one request; it fails or
\* answers with a text
CallOnce(payload, resps) ==
    {[result |-> Raise(APIError), sent |-> <<payload>>]}
    \cup {[result |-> Return(r), sent |-> <<payload>>] : r \in resps}

OpenAIModel_validate_config(api) ==
    "model" \in DOMAIN api /\ api["model"] # ""

\* generate(self, prompt): a keyword argument is a TypeError of the call
OpenAIModel_generate(api, prompt, kw, resps) ==
    IF DOMAIN kw # {}
    THEN {[result |-> Raise(UnexpectedKeywordError), sent |-> <<>>]}
    ELSE IF ~OpenAIModel_validate_config(api)
    THEN {[result |-> Raise(OpenAIConfigError), sent |-> <<>>]}
    ELSE LET params == generation_params(OpenAI_DEFAULT_PARAMS, api) IN
         { [result |-> IF Raises(c.result) THEN Raise(OpenAIAPIError)
                       ELSE Return(strip(c.result[2])),
            sent |-> c.sent] : c \in CallOnce(Payload(params, prompt), resps) }

NebiusModel_validate_config(api) ==
    generation_params(Nebius_DEFAULT_PARAMS, api)["model"] # ""

\* generate(self, prompt, **kwargs): max_tokens, temperature and timeout are
\* taken from kwargs first, the model name never is
NebiusModel_generate(api, prompt, kw, resps) ==
    IF ~NebiusModel_validate_config(api)
    THEN {[result |-> Raise(NebiusConfigError), sent |-> <<>>]}
    ELSE LET params == generation_params(Nebius_DEFAULT_PARAMS, api)
             payload ==
                 [model |-> params["model"], messages |-> prompt,
                  max_tokens |-> Get(kw, "max_tokens", params["max_tokens"]),
                  temperature |-> Get(kw, "temperature", params["temperature"]),
                  timeout |-> Get(kw, "timeout", params["timeout"])]
         IN { [result |-> IF Raises(c.result) THEN c.result
                          ELSE Return(strip(c.result[2])),
               sent |-> c.sent] : c \in CallOnce(payload, resps) }

\* the test double: generate fails or answers, and sends nothing
MockModel_generate(prompt, kw, resps) ==
    {[result |-> Raise(GenerationError), sent |-> <<>>]}
    \cup {[result |-> Return(r), sent |-> <<>>] : r \in resps}

ModelKinds == {"MockModel", "OpenAIModel", "NebiusModel"}

model_generate(kind, api, prompt, kw, resps) ==
    IF kind = "OpenAIModel" THEN OpenAIModel_generate(api, prompt, kw, resps)
    ELSE IF kind = "NebiusModel"
    THEN NebiusModel_generate(api, prompt, kw, resps)
    ELSE MockModel_generate(prompt, kw, resps)

-----------------------------------------------------------------------------
(* GenerationHandler.handle *)

\* the retry state kept on the handler object, one frame for all calls
SharedFrame(t) == 1

\* attempt and last_error are locals of handle(): one frame per call
FrameOf(t) == t

\* the loop test off by one
LoopCondInclusive(a) == a <= retries

\* while attempt < self.retries
LoopCond(a) == a < retries

\* a sleep after every failed attempt, the last one included
SleepCondAlways(a) == TRUE

\* if attempt < self.retries: time.sleep(self.sleep_time)
SleepCond(a) == a < retries

\* the built-in sleep time instead of the configured one
SleepDurationDefault == DEFAULT_SLEEP_TIME

SleepDuration == sleep_time

\* the verdict of the validator ignored
RejectedNever(verdict) == FALSE

\* if not self._validate_response(processed_response): raise ValueError
Rejected(verdict) == ~verdict

\* the generic error raised whatever the last error was
FinalErrorGeneric(e) == GenericError

\* raise last_error or Exception("Generation failed after all retries")
FinalError(e) == IF e = NoError THEN GenericError ELSE e

\* the counter stepped twice per failure
IncrementTwice(a) == a + 2

\* attempt += 1
Increment(a) == a + 1

\* a failure of kind E retried without being counted against the budget
ExceptUncounted(t, e, E) ==
    LET a == IF e \in E THEN attempt[FrameOf(t)]
             ELSE Increment(attempt[FrameOf(t)]) IN
    /\ attempt' = [attempt EXCEPT ![FrameOf(t)] = a]
    /\ last_error' = [last_error EXCEPT ![FrameOf(t)] = e]
    /\ log' = [log EXCEPT ![t] = Append(@, e)]
    /\ pc' = [pc EXCEPT ![t] = IF SleepCond(a) THEN "sleep" ELSE "while"]

\* validation failures given a budget of their own
ExceptValidationUncounted(t, e) == ExceptUncounted(t, e, {InvalidResponseError})

\* processor failures given a budget of their own
ExceptExtractionUncounted(t, e) ==
    ExceptUncounted(t, e, {EmptyResponseError, ProcessorError})

\* except Exception as e: attempt += 1; last_error = e
Except(t, e) ==
    LET a == Increment(attempt[FrameOf(t)]) IN
    /\ attempt' = [attempt EXCEPT ![FrameOf(t)] = a]
    /\ last_error' = [last_error EXCEPT ![FrameOf(t)] = e]
    /\ log' = [log EXCEPT ![t] = Append(@, e)]
    /\ pc' = [pc EXCEPT ![t] = IF SleepCond(a) THEN "sleep" ELSE "while"]

\* handle(rec, **kw) is entered
Enter(t, rec, kw) ==
    /\ input_data' = [input_data EXCEPT ![t] = rec]
    /\ kwargs' = [kwargs EXCEPT ![t] = kw]
    /\ outbound' = [outbound EXCEPT ![t] = <<>>]
    /\ pc' = [pc EXCEPT ![t] = "format"]
    /\ prev' = [prev EXCEPT ![t] = pc[t]]
    /\ outcome' = [outcome EXCEPT ![t] = <<>>]
    /\ genCalls' = [genCalls EXCEPT ![t] = 0]
    /\ genPrompts' = [genPrompts EXCEPT ![t] = {}]
    /\ procCalls' = [procCalls EXCEPT ![t] = 0]
    /\ valCalls' = [valCalls EXCEPT ![t] = 0]
    /\ sleeps' = [sleeps EXCEPT ![t] = <<>>]
    /\ log' = [log EXCEPT ![t] = <<>>]
    /\ validated' = [validated EXCEPT ![t] = <<>>]
    /\ UNCHANGED <<retries, sleep_time, processor, validator, template,
                   responses, active, formatted_prompt, attempt, last_error,
                   response, processed_response, model, config_api,
                   call_kwargs>>

\* a caller calls handle()
HandleCall(t) ==
    /\ t \in active
    /\ pc[t] \in {"idle", "returned", "raised"}
    /\ \E rec \in Records : \E kw \in call_kwargs : Enter(t, rec, kw)
    /\ UNCHANGED <<driverVars, extractorVars, formatterVars,
                   prompterVars, validatorVars>>

\* format_prompt called inside the try: its error is caught and retried
FormatErrorRetried(t, e) ==
    /\ Except(t, e)
    /\ UNCHANGED <<outcome, formatted_prompt>>

\* format_prompt is called outside the try: its error leaves handle()
FormatError(t, e) ==
    /\ pc' = [pc EXCEPT ![t] = "raised"]
    /\ outcome' = [outcome EXCEPT ![t] = Raise(e)]
    /\ UNCHANGED <<formatted_prompt, attempt, last_error, log>>

\* a formatter that fills the caller's mapping with a fallback for every
\* name it lacks
VariablesWithFallbacks(tpl, variables) ==
    LET names == {extract_variables(tpl)[i] :
                     i \in 1..Len(extract_variables(tpl))} IN
    [k \in DOMAIN variables \cup names |->
        IF k \in DOMAIN variables THEN variables[k] ELSE ""]

\* the caller's mapping after format_prompt: it is only read, and str.format
\* receives a copy of it
VariablesAfterFormat(tpl, variables) == variables

\* formatted_prompt = self.prompter.format_prompt(input_data)
\* attempt = 0; last_error = None
Format(t) ==
    /\ pc[t] = "format"
    /\ input_data' = [input_data EXCEPT
                        ![t] = VariablesAfterFormat(template, @)]
    /\ \E p \in {format_prompt(template, input_data[t])} :
       IF Raises(p)
       THEN FormatError(t, p[2])
       ELSE /\ pc' = [pc EXCEPT ![t] = "while"]
            /\ formatted_prompt' = [formatted_prompt EXCEPT ![t] = p[2]]
            /\ attempt' = [attempt EXCEPT ![FrameOf(t)] = 0]
            /\ last_error' = [last_error EXCEPT ![FrameOf(t)] = NoError]
            /\ UNCHANGED <<outcome, log>>
    /\ UNCHANGED <<retries, sleep_time, processor, validator, template,
                   responses, active, response,
                   processed_response, genCalls, genPrompts, procCalls,
                   valCalls, sleeps, validated, prev>>
    /\ UNCHANGED <<backendVars, driverVars, extractorVars, formatterVars,
                   prompterVars, validatorVars>>

\* a loop that waits instead of raising once the budget is used up
WhileTestWaiting(t) ==
    /\ pc[t] = "while"
    /\ LoopCond(attempt[FrameOf(t)])
    /\ pc' = [pc EXCEPT ![t] = "generate"]
    /\ UNCHANGED <<retries, sleep_time, processor, validator, template,
                   responses, active, input_data, formatted_prompt, attempt,
                   last_error, response, processed_response, outcome,
                   genCalls, genPrompts, procCalls, valCalls, sleeps, log,
                   validated, prev>>
    /\ UNCHANGED <<backendVars, driverVars, extractorVars, formatterVars,
                   prompterVars, validatorVars>>

\* the loop test, and the raise once the loop is left
WhileTest(t) ==
    /\ pc[t] = "while"
    /\ IF LoopCond(attempt[FrameOf(t)])
       THEN /\ pc' = [pc EXCEPT ![t] = "generate"]
            /\ UNCHANGED outcome
       ELSE /\ pc' = [pc EXCEPT ![t] = "raised"]
            /\ outcome' = [outcome EXCEPT
                             ![t] = Raise(FinalError(last_error[FrameOf(t)]))]
    /\ UNCHANGED <<retries, sleep_time, processor, validator, template,
                   responses, active, input_data, formatted_prompt, attempt,
                   last_error, response, processed_response, genCalls,
                   genPrompts, procCalls, valCalls, sleeps, log, validated,
                   prev>>
    /\ UNCHANGED <<backendVars, driverVars, extractorVars, formatterVars,
                   prompterVars, validatorVars>>

\* response = self.model.generate(formatted_prompt, **kwargs)
Generate(t) ==
    /\ pc[t] = "generate"
    /\ genCalls' = [genCalls EXCEPT ![t] = @ + 1]
    /\ genPrompts' = [genPrompts EXCEPT ![t] = @ \cup {formatted_prompt[t]}]
    /\ \E g \in model_generate(model, config_api, formatted_prompt[t],
                                kwargs[t], responses) :
        /\ outbound' = [outbound EXCEPT ![t] = @ \o g.sent]
        /\ IF Raises(g.result)
           THEN /\ Except(t, g.result[2])
                /\ UNCHANGED response
           ELSE /\ response' = [response EXCEPT ![t] = g.result[2]]
                /\ pc' = [pc EXCEPT ![t] = "process"]
                /\ UNCHANGED <<attempt, last_error, log>>
    /\ UNCHANGED <<retries, sleep_time, processor, validator, template,
                   responses, active, input_data, formatted_prompt,
                   processed_response, outcome, procCalls, valCalls, sleeps,
                   validated, prev, model, config_api, call_kwargs, kwargs>>
    /\ UNCHANGED <<driverVars, extractorVars, formatterVars,
                   prompterVars, validatorVars>>

\* a loop that records the processor's failure and validates all the same
ProcessThenValidate(t) ==
    /\ pc[t] = "process"
    /\ procCalls' = [procCalls EXCEPT ![t] = @ + 1]
    /\ \E r \in process(processor, response[t]) :
        /\ pc' = [pc EXCEPT ![t] = "validate"]
        /\ IF Raises(r)
           THEN /\ attempt' = [attempt EXCEPT ![FrameOf(t)] = Increment(@)]
                /\ last_error' = [last_error EXCEPT ![FrameOf(t)] = r[2]]
                /\ log' = [log EXCEPT ![t] = Append(@, r[2])]
                /\ UNCHANGED processed_response
           ELSE /\ processed_response' =
                     [processed_response EXCEPT ![t] = r[2]]
                /\ UNCHANGED <<attempt, last_error, log>>
    /\ UNCHANGED <<retries, sleep_time, processor, validator, template,
                   responses, active, input_data, formatted_prompt, response,
                   outcome, genCalls, genPrompts, valCalls, sleeps, validated,
                   prev>>
    /\ UNCHANGED <<backendVars, driverVars, extractorVars, formatterVars,
                   prompterVars, validatorVars>>

\* processed_response = self._process_response(response)
Process(t) ==
    /\ pc[t] = "process"
    /\ procCalls' = [procCalls EXCEPT ![t] = @ + 1]
    /\ \E r \in process(processor, response[t]) :
        IF Raises(r)
        THEN /\ Except(t, r[2])
             /\ UNCHANGED processed_response
        ELSE /\ processed_response' = [processed_response EXCEPT ![t] = r[2]]
             /\ pc' = [pc EXCEPT ![t] = "validate"]
             /\ UNCHANGED <<attempt, last_error, log>>
    /\ UNCHANGED <<retries, sleep_time, processor, validator, template,
                   responses, active, input_data, formatted_prompt, response,
                   outcome, genCalls, genPrompts, valCalls, sleeps, validated,
                   prev>>
    /\ UNCHANGED <<backendVars, driverVars, extractorVars, formatterVars,
                   prompterVars, validatorVars>>

\* if not self._validate_response(...): raise ValueError; return
Validate(t) ==
    /\ pc[t] = "validate"
    /\ valCalls' = [valCalls EXCEPT ![t] = @ + 1]
    /\ IF validate_raises(validator, processed_response[t]) # {}
       THEN \E e \in validate_raises(validator, processed_response[t]) :
            /\ Except(t, e)
            /\ UNCHANGED <<outcome, validated>>
       ELSE \E verdict \in validate(validator, processed_response[t]) :
            /\ validated' = [validated EXCEPT
                               ![t] = <<Len(log[t]), processed_response[t],
                                        verdict>>]
            /\ IF Rejected(verdict)
               THEN /\ Except(t, InvalidResponseError)
                    /\ UNCHANGED outcome
               ELSE /\ pc' = [pc EXCEPT ![t] = "returned"]
                    /\ outcome' = [outcome EXCEPT
                                     ![t] = Return(processed_response[t])]
                    /\ UNCHANGED <<attempt, last_error, log>>
    /\ UNCHANGED <<retries, sleep_time, processor, validator, template,
                   responses, active, input_data, formatted_prompt, response,
                   processed_response, genCalls, genPrompts, procCalls,
                   sleeps, prev>>
    /\ UNCHANGED <<backendVars, driverVars, extractorVars, formatterVars,
                   prompterVars, validatorVars>>

\* a retry that formats the prompt again after its sleep
SleepThenFormat(t) ==
    /\ pc[t] = "sleep"
    /\ sleeps' = [sleeps EXCEPT ![t] = Append(@, SleepDuration)]
    /\ pc' = [pc EXCEPT ![t] = "format"]
    /\ UNCHANGED <<retries, sleep_time, processor, validator, template,
                   responses, active, input_data, formatted_prompt, attempt,
                   last_error, response, processed_response, outcome,
                   genCalls, genPrompts, procCalls, valCalls, log, validated,
                   prev>>
    /\ UNCHANGED <<backendVars, driverVars, extractorVars, formatterVars,
                   prompterVars, validatorVars>>

\* time.sleep(self.sleep_time)
Sleep(t) ==
    /\ pc[t] = "sleep"
    /\ sleeps' = [sleeps EXCEPT ![t] = Append(@, SleepDuration)]
    /\ pc' = [pc EXCEPT ![t] = "while"]
    /\ UNCHANGED <<retries, sleep_time, processor, validator, template,
                   responses, active, input_data, formatted_prompt, attempt,
                   last_error, response, processed_response, outcome,
                   genCalls, genPrompts, procCalls, valCalls, log, validated,
                   prev>>
    /\ UNCHANGED <<backendVars, driverVars, extractorVars, formatterVars,
                   prompterVars, validatorVars>>

-----------------------------------------------------------------------------
(* The processors called on their own *)

\* a fenced block: the fence, a tag or none, a line break or none, the
\* content, a line break or none, the fence
Block(tag, nl, content) == <<Fence>> \o tag \o nl \o content \o nl \o <<Fence>>

\* the segments raw responses are made of: prose, blocks, a lone fence, and
\* an object whose string holds a fenced block
Segments ==
    { <<"{\"word\":\"x\"}">>, <<"not json">>, <<"\n">>,
      <<Fence>>, <<OpenStr, Fence, "not json", Fence, CloseStr>>,
      <<Fence, Fence>>, <<Fence, "\n", "\n", Fence>> }
    \cup { Block(tag, nl, content) :
              tag \in {<<>>, <<JsonTag>>}, nl \in {<<>>, <<"\n">>},
              content \in {<<"{\"word\":\"x\"}">>, <<"not json">>} }

RECURSIVE TextsOf(_)
TextsOf(n) ==
    IF n = 0 THEN {<<>>}
    ELSE TextsOf(n - 1) \cup {t \o g : t \in TextsOf(n - 1), g \in Segments}

WrapTagged(j) == <<Fence, JsonTag, "\n">> \o j \o <<"\n", Fence>>
WrapUntagged(j) == <<Fence, "\n">> \o j \o <<"\n", Fence>>

\* processor.process(text), with the processor's constructor arguments
process_of(kind, json, resp) ==
    IF kind = "CodeBlockExtractorProcessor"
    THEN {CodeBlockExtractorProcessor_process(json, resp)}
    ELSE process(kind, resp)

\* result = processor.process(text)
ExtractorProcess ==
    /\ ext_pc = "input"
    /\ \E r \in process_of(ext_processor, extract_json, text) :
          ext_result' = r
    /\ ext_pc' = "done"
    /\ UNCHANGED <<ext_processor, extract_json, text, ext_wrapped>>
    /\ UNCHANGED <<handlerVars, backendVars, driverVars, formatterVars,
                   prompterVars, validatorVars>>

\* the same text handed over inside a fenced block, tagged and untagged
ExtractorProcessWrapped ==
    /\ ext_pc = "done"
    /\ \E r1 \in process_of(ext_processor, extract_json, WrapTagged(text)) :
       \E r2 \in process_of(ext_processor, extract_json, WrapUntagged(text)) :
          ext_wrapped' = <<r1, r2>>
    /\ ext_pc' = "wrapped"
    /\ UNCHANGED <<ext_processor, extract_json, text, ext_result>>
    /\ UNCHANGED <<handlerVars, backendVars, driverVars, formatterVars,
                   prompterVars, validatorVars>>

-----------------------------------------------------------------------------
(* smart_format called on its own *)

\* the pieces templates are written with
TemplatePieces == {"{", "}", "word", "part_of_speech", " as "}

RECURSIVE TemplatesOf(_)
TemplatesOf(n) ==
    IF n = 0 THEN {<<>>}
    ELSE TemplatesOf(n - 1)
         \cup {Append(t, x) : t \in TemplatesOf(n - 1), x \in TemplatePieces}

\* result = smart_format(template, variables)
FormatterCall ==
    /\ fmt_pc = "input"
    /\ fmt_result' = smart_format(fmt_template, fmt_variables)
    /\ fmt_pc' = "done"
    /\ UNCHANGED <<fmt_template, fmt_variables>>
    /\ UNCHANGED <<handlerVars, backendVars, driverVars, extractorVars,
                   prompterVars, validatorVars>>

-----------------------------------------------------------------------------
(* TemplatePrompter: one object, its template file edited from outside,    *)
(* a thread that reloads and a thread that formats                         *)

FileNotFoundError == "FileNotFoundError: Template file not found"
IOError == "OSError: cannot read the template file"

\* the templates a template file may hold; the empty file is one of them
PrompterTemplates ==
    Templates \cup {Var("word") \o Lit(" or ") \o Var("word")}

\* the file at template_path: absent, present but not readable, or a text
TemplateFiles ==
    {<<"missing">>, <<"unreadable">>}
        \cup {<<"text", t>> : t \in PrompterTemplates}

\* a loader that forgets the template in memory before it reads the file
load_template_clearing(file, tpl) ==
    IF file = <<"missing">> THEN [result |-> Raise(FileNotFoundError),
                                  template |-> <<>>]
    ELSE IF file = <<"unreadable">> THEN [result |-> Raise(IOError),
                                          template |-> <<>>]
    ELSE [result |-> Return(PyNone), template |-> file[2]]

\* load_template: self.template is assigned only once open() and read()
\* have returned; an error is logged and raised again
load_template(file, tpl) ==
    IF file = <<"missing">> THEN [result |-> Raise(FileNotFoundError),
                                  template |-> tpl]
    ELSE IF file = <<"unreadable">> THEN [result |-> Raise(IOError),
                                          template |-> tpl]
    ELSE [result |-> Return(PyNone), template |-> file[2]]

\* if not self.template: return []; return extract_variables(self.template)
get_required_variables(tpl) ==
    IF tpl = <<>> THEN <<>> ELSE extract_variables(tpl)

\* the template file is modified externally
FileChange ==
    /\ fp_pc # "off"
    /\ template_file' \in TemplateFiles \ {template_file}
    /\ UNCHANGED <<template, rl_calls, rl_result, rl_before, fp_pc,
                   fp_variables, fp_result, fp_seen, fp_at, req_template,
                   req_result>>
    /\ UNCHANGED <<handlerOther, backendVars, driverVars, extractorVars,
                   formatterVars, validatorVars>>

\* reload_template(): self.load_template()
ReloadTemplate ==
    /\ fp_pc # "off"
    /\ rl_calls < MaxReloads
    /\ LET r == load_template(template_file, template) IN
        /\ template' = r.template
        /\ rl_result' = r.result
        /\ fp_seen' = IF fp_pc = "checked" THEN fp_seen \cup {r.template}
                      ELSE fp_seen
    /\ rl_before' = template
    /\ rl_calls' = rl_calls + 1
    /\ UNCHANGED <<template_file, fp_pc, fp_variables, fp_result, fp_at,
                   req_template, req_result>>
    /\ UNCHANGED <<handlerOther, backendVars, driverVars, extractorVars,
                   formatterVars, validatorVars>>

\* format_prompt(variables) up to its test: if not self.template: raise
FormatPromptCheck ==
    /\ fp_pc \in {"idle", "done"}
    /\ fp_variables' \in Records \cup {<<>>}
    /\ fp_seen' = {template}
    /\ fp_at' = rl_calls
    /\ IF template = <<>>
       THEN fp_result' = Raise(NoTemplateError) /\ fp_pc' = "done"
       ELSE fp_result' = <<>> /\ fp_pc' = "checked"
    /\ UNCHANGED <<template, template_file, rl_calls, rl_result, rl_before,
                   req_template, req_result>>
    /\ UNCHANGED <<handlerOther, backendVars, driverVars, extractorVars,
                   formatterVars, validatorVars>>

\* return smart_format(self.template, variables): self.template is read
\* again
FormatPromptFormat ==
    /\ fp_pc = "checked"
    /\ fp_result' = smart_format(template, fp_variables)
    /\ fp_pc' = "done"
    /\ UNCHANGED <<template, template_file, rl_calls, rl_result, rl_before,
                   fp_variables, fp_seen, fp_at, req_template, req_result>>
    /\ UNCHANGED <<handlerOther, backendVars, driverVars, extractorVars,
                   formatterVars, validatorVars>>

\* get_required_variables()
GetRequiredVariables ==
    /\ fp_pc # "off"
    /\ req_template' = template
    /\ req_result' = Return(get_required_variables(template))
    /\ UNCHANGED <<template, template_file, rl_calls, rl_result, rl_before,
                   fp_pc, fp_variables, fp_result, fp_seen, fp_at>>
    /\ UNCHANGED <<handlerOther, backendVars, driverVars, extractorVars,
                   formatterVars, validatorVars>>

-----------------------------------------------------------------------------
(* JsonResponseValidator built from its configuration and called on its own *)

SchemaLoadError == "ValueError: Required JSON schema could not be loaded"

\* a schema that wants an object with the member "word"
WordSchema == PyDict(<<"{\"type\":\"object\",\"required\":[\"word\"]}">>)

\* the schema argument: None, an empty dict or a schema
SchemaArgs == {PyNone, PyDict(<<>>), WordSchema}

\* the file at schema_path: no path configured, no such file, a file that
\* cannot be opened or parsed, or a file holding a schema
SchemaFiles ==
    {<<"none">>, <<"missing">>, <<"unreadable">>, <<"json", WordSchema>>}

\* bool(v) of a schema value: None and the empty dict are false
Truthy(v) == v # PyNone /\ v[2] # <<>>

\* the member names of a parsed JSON value
Keys(v) ==
    IF v[1] # "dict" \/ v[2] = <<>> THEN {}
    ELSE IF v[2][1] \in JsonObjectTexts THEN {"word"}
    ELSE {"a"}

\* jsonschema.validate(instance, schema) does not raise ValidationError
jsonschema_validate(instance, schema) ==
    instance[1] = "dict" /\ "word" \in Keys(instance)

\* a constructor that refuses to build whenever a required schema is absent
JsonResponseValidator_init_strict(require, schema, file) ==
    LET loaded == IF ~Truthy(schema) /\ file[1] = "json" THEN file[2]
                  ELSE schema IN
    IF require /\ ~Truthy(loaded) THEN Raise(SchemaLoadError)
    ELSE Return([schema |-> loaded, require_schema |-> require])

\* __init__: the schema file is read only when no schema was passed, a path
\* is configured and the file exists; only a failure of that read raises,
\* and only when require_schema is set
JsonResponseValidator_init(require, schema, file) ==
    IF ~Truthy(schema) /\ file[1] \notin {"none", "missing"}
    THEN IF file[1] = "json"
         THEN Return([schema |-> file[2], require_schema |-> require])
         ELSE IF require THEN Raise(SchemaLoadError)
         ELSE Return([schema |-> schema, require_schema |-> require])
    ELSE Return([schema |-> schema, require_schema |-> require])

\* validate(response) of a built validator
JsonResponseValidator_call(self, v) ==
    IF v[1] \notin {"dict", "str"} THEN Raise(JsonTypeError)
    ELSE LET json_data == IF v[1] = "dict" THEN v ELSE json_loads(v[2]) IN
         IF json_data = JSONDecodeError THEN Return(FALSE)
         ELSE IF self.require_schema /\ ~Truthy(self.schema)
              THEN Return(FALSE)
         ELSE IF Truthy(self.schema)
              THEN Return(jsonschema_validate(json_data, self.schema))
         ELSE Return(TRUE)

\* the raw responses a processor is given
CandidateTexts == TextsOf(MaxSegments) \cup RawResponses

\* the values the processors hand on as processed responses
CandidateValues ==
    {r[2] : r \in {x \in {CodeBlockExtractorProcessor_process(j, t) :
                              j \in BOOLEAN, t \in CandidateTexts}
                           \cup UNION {DefaultProcessor_process(t) :
                                          t \in CandidateTexts} :
                      ~Raises(x)}}

\* validator = JsonResponseValidator(config, schema)
ValidatorConstruct ==
    /\ jv_pc = "config"
    /\ jv_built' = JsonResponseValidator_init(jv_require, jv_schema_arg,
                                              jv_schema_file)
    /\ jv_pc' = IF Raises(jv_built') THEN "failed" ELSE "built"
    /\ UNCHANGED <<jv_require, jv_schema_arg, jv_schema_file, jv_value,
                   jv_verdict>>
    /\ UNCHANGED <<handlerVars, backendVars, driverVars, extractorVars,
                   formatterVars, prompterVars>>

\* validator.validate(processed_response)
ValidatorCall ==
    /\ jv_pc = "built"
    /\ \E v \in CandidateValues :
        /\ jv_value' = v
        /\ jv_verdict' = JsonResponseValidator_call(jv_built[2], v)
    /\ jv_pc' = "called"
    /\ UNCHANGED <<jv_require, jv_schema_arg, jv_schema_file, jv_built>>
    /\ UNCHANGED <<handlerVars, backendVars, driverVars, extractorVars,
                   formatterVars, prompterVars>>

-----------------------------------------------------------------------------
(* process_input_file *)

\* entry['error'] = str(e)
Marked(entry, e) ==
    [k \in DOMAIN entry \cup {"error"} |->
        IF k = "error" THEN e ELSE entry[k]]

\* a driver that leaves a failed record out of the results
OnHandleErrorSkip(entry, e) == <<>>

\* except Exception as e: entry['error'] = str(e); results.append(entry)
OnHandleError(entry, e) == <<Marked(entry, e)>>

\* input_data = json.load(file); results = []
DriverLoad ==
    /\ driver_pc = "start"
    /\ entries' = input_file
    /\ results' = <<>>
    /\ index' = 0
    /\ driver_pc' = "loop"
    /\ UNCHANGED <<input_file, handled, written>>
    /\ UNCHANGED <<handlerVars, backendVars, extractorVars, formatterVars,
                   prompterVars, validatorVars>>

\* for i, entry in enumerate(input_data): handler.handle(entry)
DriverCall ==
    /\ driver_pc = "loop"
    /\ index < Len(entries)
    /\ Enter(1, entries[index + 1], <<>>)
    /\ driver_pc' = "call"
    /\ UNCHANGED <<input_file, entries, index, handled, results, written>>
    /\ UNCHANGED <<extractorVars, formatterVars,
                   prompterVars, validatorVars>>

\* handle() has returned or raised: results.append(...)
DriverCollect ==
    /\ driver_pc = "call"
    /\ pc[1] \in {"returned", "raised"}
    /\ handled' = Append(handled, <<input_data[1], outcome[1]>>)
    /\ IF Raises(outcome[1])
       THEN /\ results' = results \o OnHandleError(entries[index + 1],
                                                   outcome[1][2])
            /\ entries' = [entries EXCEPT
                             ![index + 1] = Marked(@, outcome[1][2])]
       ELSE /\ results' = Append(results, outcome[1][2])
            /\ UNCHANGED entries
    /\ index' = index + 1
    /\ driver_pc' = "loop"
    /\ UNCHANGED <<input_file, written>>
    /\ UNCHANGED <<handlerVars, backendVars, extractorVars, formatterVars,
                   prompterVars, validatorVars>>

\* json.dump(results, file)
DriverWrite ==
    /\ driver_pc = "loop"
    /\ index = Len(entries)
    /\ written' = results
    /\ driver_pc' = "written"
    /\ UNCHANGED <<input_file, entries, index, handled, results>>
    /\ UNCHANGED <<handlerVars, backendVars, extractorVars, formatterVars,
                   prompterVars, validatorVars>>

-----------------------------------------------------------------------------
(* Specifications *)

InitCalls ==
    /\ pc = [t \in Threads |-> "idle"]
    /\ input_data = [t \in Threads |-> <<>>]
    /\ formatted_prompt = [t \in Threads |-> <<>>]
    /\ attempt = [t \in Threads |-> 0]
    /\ last_error = [t \in Threads |-> NoError]
    /\ response = [t \in Threads |-> <<>>]
    /\ processed_response = [t \in Threads |-> PyNone]
    /\ outcome = [t \in Threads |-> <<>>]
    /\ genCalls = [t \in Threads |-> 0]
    /\ genPrompts = [t \in Threads |-> {}]
    /\ procCalls = [t \in Threads |-> 0]
    /\ valCalls = [t \in Threads |-> 0]
    /\ sleeps = [t \in Threads |-> <<>>]
    /\ log = [t \in Threads |-> <<>>]
    /\ validated = [t \in Threads |-> <<>>]
    /\ prev = [t \in Threads |-> "idle"]
    /\ kwargs = [t \in Threads |-> <<>>]
    /\ outbound = [t \in Threads |-> <<>>]

\* the handler is built on the test double of the model
InitMockModel ==
    /\ model = "MockModel"
    /\ config_api = <<>>
    /\ call_kwargs = {<<>>}

\* no batch is run
InitNoDriver ==
    /\ driver_pc = "off"
    /\ input_file = <<>>
    /\ entries = <<>>
    /\ index = 0
    /\ handled = <<>>
    /\ results = <<>>
    /\ written = <<>>

\* the prompter is used by the handler only and its file is left alone
InitNoPrompter ==
    /\ template_file = <<"text", template>>
    /\ rl_calls = 0
    /\ rl_result = <<>>
    /\ rl_before = <<>>
    /\ fp_pc = "off"
    /\ fp_variables = <<>>
    /\ fp_result = <<>>
    /\ fp_seen = {}
    /\ fp_at = 0
    /\ req_template = <<>>
    /\ req_result = <<>>

\* the JSON validator is used by the handler only
InitNoValidator ==
    /\ jv_pc = "off"
    /\ jv_require = FALSE
    /\ jv_schema_arg = PyNone
    /\ jv_schema_file = <<"none">>
    /\ jv_built = <<>>
    /\ jv_value = PyNone
    /\ jv_verdict = <<>>

\* the processor and the formatter are called by the handler only
InitNoUnits ==
    /\ ext_pc = "off"
    /\ ext_processor = "DefaultProcessor"
    /\ extract_json = TRUE
    /\ text = <<>>
    /\ ext_result = <<>>
    /\ ext_wrapped = <<>>
    /\ fmt_pc = "off"
    /\ fmt_template = <<>>
    /\ fmt_variables = <<>>
    /\ fmt_result = <<>>
    /\ InitNoPrompter
    /\ InitNoValidator

\* GenerationHandler.__init__
InitHandler(maxRetries) ==
    \E c \in HandlerConfigs(maxRetries) :
        /\ retries = Get(c, "retries", DEFAULT_RETRIES)
        /\ sleep_time = Get(c, "sleep_time", DEFAULT_SLEEP_TIME)

\* one thread calls handle(), again and again
Init ==
    /\ InitHandler(MaxRetries)
    /\ processor \in ProcessorKinds
    /\ validator \in ValidatorKinds
    /\ template \in Templates
    /\ responses = RawResponses
    /\ active = {1}
    /\ InitCalls
    /\ InitMockModel
    /\ InitNoDriver
    /\ InitNoUnits

\* two threads call handle() on the one handler
InitConc ==
    /\ \E c \in HandlerConfigs(MaxRetriesConc) :
        /\ DOMAIN c = {"retries"}
        /\ retries = Get(c, "retries", DEFAULT_RETRIES)
        /\ sleep_time = Get(c, "sleep_time", DEFAULT_SLEEP_TIME)
    /\ processor = "DefaultProcessor"
    /\ validator = "MockValidator"
    /\ template =
         Var("word") \o Lit(" as ") \o Var("part_of_speech") \o Esc("json")
    /\ responses = {<<>>, <<"null">>}
    /\ active = Threads
    /\ InitCalls
    /\ InitMockModel
    /\ InitNoDriver
    /\ InitNoUnits

\* one thread calls handle() on a handler built on a real backend
InitBackend ==
    /\ \E c \in HandlerConfigs(MaxRetriesBackend) :
        /\ DOMAIN c = {"retries"}
        /\ retries = Get(c, "retries", DEFAULT_RETRIES)
        /\ sleep_time = Get(c, "sleep_time", DEFAULT_SLEEP_TIME)
    /\ processor = "DefaultProcessor"
    /\ validator = "DefaultValidator"
    /\ template = Lit("Define ") \o Var("word")
    /\ responses = {<<"null">>, <<"{\"word\":\"x\"}", "\n">>}
    /\ active = {1}
    /\ InitCalls
    /\ model \in {"OpenAIModel", "NebiusModel"}
    /\ config_api \in ApiConfigs
    /\ call_kwargs = CallKwargs
    /\ InitNoDriver
    /\ InitNoUnits

\* input files: lists of records
RECURSIVE ListsOf(_, _)
ListsOf(S, n) ==
    IF n = 0 THEN {<<>>}
    ELSE ListsOf(S, n - 1)
         \cup {Append(l, x) : l \in ListsOf(S, n - 1), x \in S}

\* main(): the components of create_components, then process_input_file
InitBatch ==
    /\ \E c \in HandlerConfigs(MaxRetriesBatch) :
        /\ DOMAIN c = {"retries"}
        /\ retries = Get(c, "retries", DEFAULT_RETRIES)
        /\ sleep_time = Get(c, "sleep_time", DEFAULT_SLEEP_TIME)
    /\ processor = "CodeBlockExtractorProcessor"
    /\ validator = "JsonResponseValidator"
    /\ template = Var("word") \o Lit(" as ") \o Var("part_of_speech")
    /\ responses = {<<"{\"word\":\"x\"}">>, <<"not json">>, <<"null">>}
    /\ active = {1}
    /\ InitCalls
    /\ model = "OpenAIModel"
    /\ config_api \in {c \in ApiConfigs : DOMAIN c \subseteq {"model"}}
    /\ call_kwargs = {<<>>}
    /\ driver_pc = "start"
    /\ input_file \in ListsOf(Records, MaxBatch)
    /\ entries = <<>>
    /\ index = 0
    /\ handled = <<>>
    /\ results = <<>>
    /\ written = <<>>
    /\ InitNoUnits

\* one thread calls handle(), any budget, any processor and validator
InitLive ==
    /\ InitHandler(MaxRetries)
    /\ processor \in ProcessorKinds
    /\ validator \in ValidatorKinds
    /\ template = Lit("Define ") \o Var("word")
    /\ responses = RawResponses
    /\ active = {1}
    /\ InitCalls
    /\ InitMockModel
    /\ InitNoDriver
    /\ InitNoUnits

\* no caller of handle(): the handler is built and left alone
InitIdleHandler ==
    /\ retries = DEFAULT_RETRIES
    /\ sleep_time = DEFAULT_SLEEP_TIME
    /\ processor = "DefaultProcessor"
    /\ validator = "DefaultValidator"
    /\ template = <<>>
    /\ responses = {}
    /\ active = {}
    /\ InitCalls
    /\ InitMockModel
    /\ InitNoDriver

\* a processor is built and called on a raw response
InitExtract ==
    /\ InitIdleHandler
    /\ ext_pc = "input"
    /\ \/ ext_processor = "CodeBlockExtractorProcessor" /\ extract_json \in BOOLEAN
       \/ ext_processor = "DefaultProcessor" /\ extract_json = TRUE
    /\ text \in TextsOf(MaxSegments)
    /\ ext_result = <<>>
    /\ ext_wrapped = <<>>
    /\ fmt_pc = "off"
    /\ fmt_template = <<>>
    /\ fmt_variables = <<>>
    /\ fmt_result = <<>>
    /\ InitNoPrompter
    /\ InitNoValidator

\* smart_format is called with a template and a mapping
InitFormat ==
    /\ InitIdleHandler
    /\ ext_pc = "off"
    /\ ext_processor = "DefaultProcessor"
    /\ extract_json = TRUE
    /\ text = <<>>
    /\ ext_result = <<>>
    /\ ext_wrapped = <<>>
    /\ fmt_pc = "input"
    /\ fmt_template \in TemplatesOf(MaxTemplateLen)
    /\ fmt_variables \in Records \cup {<<>>}
    /\ fmt_result = <<>>
    /\ InitNoPrompter
    /\ InitNoValidator

\* the components of an idle handler apart from the prompter
InitIdleComponents ==
    /\ retries = DEFAULT_RETRIES
    /\ sleep_time = DEFAULT_SLEEP_TIME
    /\ processor = "DefaultProcessor"
    /\ validator = "DefaultValidator"
    /\ responses = {}
    /\ active = {}
    /\ InitCalls
    /\ InitMockModel
    /\ InitNoDriver

\* TemplatePrompter.__init__ has loaded the template file
InitPrompter ==
    /\ InitIdleComponents
    /\ template \in PrompterTemplates
    /\ template_file = <<"text", template>>
    /\ rl_calls = 0
    /\ rl_result = <<>>
    /\ rl_before = <<>>
    /\ fp_pc = "idle"
    /\ fp_variables = <<>>
    /\ fp_result = <<>>
    /\ fp_seen = {}
    /\ fp_at = 0
    /\ req_template = <<>>
    /\ req_result = <<>>
    /\ ext_pc = "off"
    /\ ext_processor = "DefaultProcessor"
    /\ extract_json = TRUE
    /\ text = <<>>
    /\ ext_result = <<>>
    /\ ext_wrapped = <<>>
    /\ fmt_pc = "off"
    /\ fmt_template = <<>>
    /\ fmt_variables = <<>>
    /\ fmt_result = <<>>
    /\ InitNoValidator

\* a JSON validator is configured, built and called
InitValidator ==
    /\ InitIdleHandler
    /\ ext_pc = "off"
    /\ ext_processor = "DefaultProcessor"
    /\ extract_json = TRUE
    /\ text = <<>>
    /\ ext_result = <<>>
    /\ ext_wrapped = <<>>
    /\ fmt_pc = "off"
    /\ fmt_template = <<>>
    /\ fmt_variables = <<>>
    /\ fmt_result = <<>>
    /\ InitNoPrompter
    /\ jv_pc = "config"
    /\ jv_require \in BOOLEAN
    /\ jv_schema_arg \in SchemaArgs
    /\ jv_schema_file \in SchemaFiles
    /\ jv_built = <<>>
    /\ jv_value = PyNone
    /\ jv_verdict = <<>>

NextValidator == ValidatorConstruct \/ ValidatorCall

NextPrompter ==
    \/ FileChange
    \/ ReloadTemplate
    \/ FormatPromptCheck
    \/ FormatPromptFormat
    \/ GetRequiredVariables

NextFormat == FormatterCall

NextExtract == ExtractorProcess \/ ExtractorProcessWrapped

NextBatch ==
    \/ DriverLoad
    \/ DriverCall
    \/ Format(1)
    \/ WhileTest(1)
    \/ Generate(1)
    \/ Process(1)
    \/ Validate(1)
    \/ Sleep(1)
    \/ DriverCollect
    \/ DriverWrite

Next ==
    \E t \in Threads :
        \/ HandleCall(t)
        \/ Format(t)
        \/ WhileTest(t)
        \/ Generate(t)
        \/ Process(t)
        \/ Validate(t)
        \/ Sleep(t)

Spec == Init /\ [][Next]_vars

SpecConc == InitConc /\ [][Next]_vars

SpecBackend == InitBackend /\ [][Next]_vars

\* a call of handle() that has been entered goes on: the statement it
\* stands at is executed, every call it makes returning or raising
SpecLive ==
    /\ InitLive
    /\ [][Next]_vars
    /\ \A t \in Threads :
          WF_vars(Format(t) \/ WhileTest(t) \/ Generate(t) \/ Process(t)
                    \/ Validate(t) \/ Sleep(t))

SpecExtract == InitExtract /\ [][NextExtract]_vars

SpecFormat == InitFormat /\ [][NextFormat]_vars

SpecPrompter == InitPrompter /\ [][NextPrompter]_vars

SpecValidator == InitValidator /\ [][NextValidator]_vars

\* the batch is one sequential program: it takes its next step
SpecBatch == InitBatch /\ [][NextBatch]_vars /\ WF_vars(NextBatch)

-----------------------------------------------------------------------------
(* What a finished or running call looks like *)

PlaceholderNames == {"word", "part_of_speech"}
FormatErrors == {NoTemplateError} \cup {KeyErrorOf(n) : n \in PlaceholderNames}
ExtractErrors == {EmptyResponseError, ProcessorError}

\* every failed attempt of the call so far failed with an error of E
AllFailures(t, E) == \A i \in 1..Len(log[t]) : log[t][i] \in E

\* handle() raised out of its retry loop
Exhausted(t) == pc[t] = "raised" /\ outcome[t][2] \notin FormatErrors

\* handle() raised because the prompt could not be built
FormatFailed(t) == pc[t] = "raised" /\ outcome[t][2] \in FormatErrors

InLoop(t) == pc[t] \in {"while", "generate", "process", "validate", "sleep"}

-----------------------------------------------------------------------------
\* C1: when the generator fails k < max_attempts times and then succeeds,
\* with extraction and validation succeeding, handle() returns the processed
\* value of the successful response after k+1 generate invocations and k
\* sleeps, each of duration sleep_time.
C1_RetryBudget ==
    \A t \in active :
        (pc[t] = "returned" /\ AllFailures(t, {GenerationError})) =>
            LET k == Len(log[t]) IN
            /\ k < retries
            /\ genCalls[t] = k + 1
            /\ Len(sleeps[t]) = k
            /\ \A i \in 1..k : sleeps[t][i] = sleep_time
            /\ outcome[t] \in process(processor, response[t])

C1_Witness ==
    /\ pc[1] = "returned"
    /\ log[1] = <<GenerationError, GenerationError>>
    /\ sleep_time # DEFAULT_SLEEP_TIME

\* C2: when the generator always fails, handle() raises after exactly
\* max_attempts generate invocations, and never makes more on the way.
C2_RetryExhaustion ==
    \A t \in active :
        AllFailures(t, {GenerationError}) =>
            /\ InLoop(t) \/ Exhausted(t) => genCalls[t] <= retries
            /\ Exhausted(t) => genCalls[t] = retries /\ Len(log[t]) = retries

C2_Witness ==
    /\ Exhausted(1)
    /\ log[1] = <<GenerationError, GenerationError, GenerationError>>
    /\ genCalls[1] = 3

\* C3: when the generator always succeeds and the validator always answers
\* false, handle() raises after exactly max_attempts generate invocations and
\* exactly max_attempts validate invocations.
C3_ValidationSharesBudget ==
    \A t \in active :
        AllFailures(t, {InvalidResponseError}) =>
            /\ InLoop(t) \/ Exhausted(t) =>
                    genCalls[t] <= retries /\ valCalls[t] <= retries
            /\ Exhausted(t) => genCalls[t] = retries /\ valCalls[t] = retries

C3_Witness ==
    /\ Exhausted(1)
    /\ log[1] = <<InvalidResponseError, InvalidResponseError, InvalidResponseError>>
    /\ valCalls[1] = 3
    /\ validator = "MockValidator"

\* the retry transition of thread t: one attempt consumed, the error kept,
\* then the backoff sleep if budget is left, else the loop left
RetryStep(t, E) ==
    /\ attempt'[t] = attempt[t] + 1
    /\ last_error'[t] \in E
    /\ log'[t] = Append(log[t], last_error'[t])
    /\ pc'[t] = IF attempt'[t] < retries THEN "sleep" ELSE "while"

\* C4: an exception raised by the processor takes the same retry transition
\* as a generation failure (one attempt of the same budget, then sleep or
\* leave the loop); when the processor raised in every attempt, handle()
\* raises the processor's error after exactly max_attempts generate
\* invocations.
C4_ExtractionFailureRetries ==
    /\ [][\A t \in active :
            /\ (pc[t] = "generate" /\ pc'[t] # "process") =>
                    RetryStep(t, {GenerationError})
            /\ (pc[t] = "process" /\ pc'[t] # "validate") =>
                    RetryStep(t, ExtractErrors)]_vars
    /\ [](\A t \in active :
            (Exhausted(t) /\ log[t] # <<>> /\ AllFailures(t, ExtractErrors)) =>
                /\ outcome[t] = Raise(log[t][Len(log[t])])
                /\ genCalls[t] = retries
                /\ procCalls[t] = retries)

C4_Witness ==
    /\ Exhausted(1)
    /\ log[1] = <<ProcessorError, ProcessorError, ProcessorError>>
    /\ outcome[1] = Raise(ProcessorError)
    /\ genCalls[1] = 3

\* C5: inside handle() the attempt counter starts at 0, counts every failed
\* attempt whatever stage failed, never exceeds max_attempts, and no call
\* makes more than max_attempts generate invocations.
C5_AttemptCounter ==
    \A t \in active :
        /\ InLoop(t) \/ Exhausted(t) \/ pc[t] = "returned" =>
            /\ attempt[t] = Len(log[t])
            /\ attempt[t] <= retries
            /\ genCalls[t] <= retries
        /\ pc[t] \in {"generate", "process", "validate"} => attempt[t] < retries

C5_Witness ==
    /\ Exhausted(1)
    /\ attempt[1] = 3
    /\ log[1] = <<InvalidResponseError, EmptyResponseError, GenerationError>>

\* C6: when building the prompt fails, handle() raises that error at once:
\* no generate invocation, no sleep, no attempt consumed.
C6_FormatFailureFatal ==
    \A t \in active :
        (pc[t] \notin {"idle", "format"}
            /\ Raises(format_prompt(template, input_data[t]))) =>
                /\ pc[t] = "raised"
                /\ outcome[t] = format_prompt(template, input_data[t])
                /\ genCalls[t] = 0
                /\ sleeps[t] = <<>>
                /\ log[t] = <<>>

C6_Witness ==
    /\ pc[1] = "raised"
    /\ outcome[1] = Raise(KeyErrorOf("part_of_speech"))
    /\ genCalls[1] = 0
    /\ prev[1] = "returned"

\* C7 as stated: whenever handle() fails after its retry loop, for any
\* configured max_attempts, the error raised is the error of the last failed
\* attempt, never a generic substitute.
C7_Original ==
    \A t \in active :
        Exhausted(t) =>
            /\ log[t] # <<>>
            /\ outcome[t] = Raise(log[t][Len(log[t])])
            /\ outcome[t] # Raise(GenericError)

\* C7 amended: whenever handle() fails after its retry loop with
\* max_attempts >= 1, the error raised is the error of the last failed
\* attempt, never the generic one.
C7_LastConcreteError ==
    \A t \in active :
        (Exhausted(t) /\ retries >= 1) =>
            /\ log[t] # <<>>
            /\ outcome[t] = Raise(log[t][Len(log[t])])
            /\ outcome[t] # Raise(GenericError)

C7_Witness ==
    /\ Exhausted(1)
    /\ log[1] = <<GenerationError, InvalidResponseError>>
    /\ outcome[1] = Raise(InvalidResponseError)

\* C8: handle() returns a value only if the validator answered true for that
\* value in that attempt; an answer of false becomes the invalid-response
\* error of that attempt and never a returned value.
C8_ReturnOnlyValidated ==
    \A t \in active :
        /\ pc[t] = "returned" =>
                validated[t] = <<attempt[t], outcome[t][2], TRUE>>
        /\ (validated[t] # <<>> /\ ~validated[t][3]) =>
                /\ pc[t] # "returned"
                /\ Len(log[t]) > validated[t][1]
                /\ log[t][validated[t][1] + 1] = InvalidResponseError

C8_Witness ==
    /\ pc[1] = "returned"
    /\ log[1] = <<InvalidResponseError>>
    /\ validated[1] = <<1, PyDict(<<"{\"word\":\"x\"}">>), TRUE>>

\* the generate invocations a call has made, told from its own attempts
OwnGenCalls(t) ==
    Len(log[t]) + (IF pc[t] \in {"process", "validate", "returned"} THEN 1 ELSE 0)

\* C9: the retry state is local to each handle() call.  With two calls on one
\* handler interleaved in any order, a step of one call never changes the
\* other call's attempt counter or last error; every call starts at attempt
\* 0, also after an earlier call returned or raised; every call has the full
\* budget of max_attempts and its result follows from its own attempts alone.
C9_CallLocalRetryState ==
    /\ [][\A t \in Threads : \A u \in Threads \ {t} :
            pc'[t] # pc[t] =>
                attempt'[u] = attempt[u] /\ last_error'[u] = last_error[u]]_vars
    /\ [][\A t \in Threads :
            (pc[t] = "format" /\ pc'[t] = "while") =>
                attempt'[t] = 0 /\ last_error'[t] = NoError]_vars
    /\ [](\A t \in Threads :
            /\ InLoop(t) \/ Exhausted(t) \/ pc[t] = "returned" =>
                /\ attempt[t] = Len(log[t])
                /\ genCalls[t] = OwnGenCalls(t)
                /\ last_error[t] =
                     IF log[t] = <<>> THEN NoError ELSE log[t][Len(log[t])]
            /\ Exhausted(t) =>
                /\ Len(log[t]) = retries
                /\ outcome[t] = Raise(FinalError(last_error[t]))
            /\ pc[t] = "returned" =>
                /\ Len(log[t]) < retries
                /\ outcome[t] = Return(validated[t][2]))

C9_Witness ==
    /\ pc[1] = "generate"
    /\ attempt[1] = 1
    /\ prev[1] = "returned"
    /\ pc[2] = "while"
    /\ attempt[2] = 0
    /\ prev[2] = "raised"
    /\ retries = 2

\* C10 as stated: with no validator configured every candidate the processor
\* produces is accepted, so no attempt ever fails on validation.
C10_Original ==
    \A t \in active :
        validator = "DefaultValidator" =>
            /\ validated[t] # <<>> => validated[t][3]
            /\ \A i \in 1..Len(log[t]) : log[t][i] # InvalidResponseError

\* C10 amended: with no validator configured every candidate other than None
\* is accepted: handle() returns the candidate of the first attempt whose
\* generate and extract both succeed with a candidate that is not None, and
\* an attempt fails on validation only when its candidate is None.
C10_DefaultValidatorAccepts ==
    \A t \in active :
        validator = "DefaultValidator" =>
            /\ validated[t] # <<>> =>
                /\ validated[t][3] = (validated[t][2] # PyNone)
                /\ validated[t][3] =>
                     pc[t] = "returned" /\ outcome[t] = Return(validated[t][2])
            /\ pc[t] = "returned" => outcome[t] # Return(PyNone)
            /\ valCalls[t] =
                 Cardinality({i \in 1..Len(log[t]) :
                                 log[t][i] = InvalidResponseError})
                 + (IF pc[t] = "returned" THEN 1 ELSE 0)

C10_Witness ==
    /\ validator = "DefaultValidator"
    /\ pc[1] = "returned"
    /\ log[1] = <<InvalidResponseError>>
    /\ outcome[1] = Return(PyDict(<<"{\"word\":\"x\"}">>))

-----------------------------------------------------------------------------
(* C11: a configuration error met by generate at first use is fatal:       *)
(* handle() surfaces it after a single generate invocation, without a      *)
(* backoff sleep and without a retry.                                      *)

ConfigErrorLogged(t) == \E i \in 1..Len(log[t]) : log[t][i] \in ConfigErrors

C11_ConfigErrorFatal ==
    \A t \in Threads :
        ConfigErrorLogged(t) =>
            /\ genCalls[t] = 1
            /\ sleeps[t] = <<>>
            /\ pc[t] \in {"while", "raised"}

-----------------------------------------------------------------------------
(* C12: process_input_file calls handle() once per input record, in input  *)
(* order, and writes exactly one result per record in the same order: the  *)
(* value handle() returned, or the record carrying the error marker when   *)
(* handle() raised. A failing record stops neither the later records nor   *)
(* the writing of the results.                                             *)

\* what the batch owes for the i-th record, given how its handle() call ended
ResultFor(i) ==
    IF Raises(handled[i][2]) THEN Marked(input_file[i], handled[i][2][2])
    ELSE handled[i][2][2]

C12_ResultsSoFar ==
    /\ Len(handled) = index
    /\ Len(results) = index
    /\ index <= Len(input_file)
    /\ \A i \in 1..index :
        /\ handled[i][1] = input_file[i]
        /\ results[i] = ResultFor(i)
    /\ driver_pc = "call" => input_data[1] = input_file[index + 1]
    /\ driver_pc = "written" => index = Len(input_file) /\ written = results

C12_BatchResults == []C12_ResultsSoFar /\ <>(driver_pc = "written")

C12_Witness ==
    /\ driver_pc = "written"
    /\ Len(written) = 2
    /\ Raises(handled[1][2])
    /\ ~Raises(handled[2][2])
    /\ "error" \in DOMAIN written[1]
    /\ written[2] = PyDict(<<"{\"word\":\"x\"}">>)

-----------------------------------------------------------------------------
(* C13: handle() leaves the caller's input record unchanged, same keys and *)
(* same values, whether it returns or raises and after any number of       *)
(* attempts: no step taken inside a call changes the record.               *)

C13_InputRecordUnchanged ==
    [][\A t \in Threads :
          InLoop(t) \/ pc[t] = "format" => input_data'[t] = input_data[t]]_vars

C13_Witness ==
    \E t \in Threads :
        /\ pc[t] = "raised"
        /\ Len(log[t]) = 3
        /\ input_data[t] = [word |-> "cat", part_of_speech |-> "noun"]

-----------------------------------------------------------------------------
(* C14, as stated: each invocation of a backend's generate performs        *)
(* exactly one outbound chat-completion call, whether it succeeds or fails.*)

\* the outbound calls of the generate invocation made by this step
SentByStep(t) == Len(outbound'[t]) - Len(outbound[t])

GenerateStep(t) == genCalls'[t] = genCalls[t] + 1

C14_Original ==
    [][\A t \in Threads : GenerateStep(t) => SentByStep(t) = 1]_vars

(* C14, amended: each invocation of generate performs at most one outbound *)
(* call and never retries internally: exactly one when it gets as far as   *)
(* the call, whether the call succeeds or fails, and none when generate    *)
(* raises before it (invalid configuration, or a keyword argument the      *)
(* backend does not accept).                                               *)

RaisedBeforeCall(t) ==
    /\ Len(log'[t]) = Len(log[t]) + 1
    /\ log'[t][Len(log'[t])] \in ConfigErrors \cup {UnexpectedKeywordError}

C14_AtMostOneCall ==
    [][\A t \in Threads :
          GenerateStep(t) =>
              SentByStep(t) = IF RaisedBeforeCall(t) THEN 0 ELSE 1]_vars

C14_Witness ==
    \E t \in Threads :
        /\ genCalls[t] = 2
        /\ Len(outbound[t]) = 2
        /\ log[t] = <<OpenAIAPIError>>
        /\ pc[t] = "returned"

-----------------------------------------------------------------------------
(* C15: for every backend, each parameter sent with an outbound call       *)
(* (model, max_tokens, temperature, timeout) is the per-call override      *)
(* passed through handle() when there is one, else the backend             *)
(* configuration's value, else the built-in default; an override is        *)
(* accepted, never refused.                                                *)

BuiltInDefaults ==
    IF model = "OpenAIModel" THEN OpenAI_DEFAULT_PARAMS
    ELSE Nebius_DEFAULT_PARAMS

Resolved(t, k) ==
    IF k \in DOMAIN kwargs[t] THEN kwargs[t][k]
    ELSE IF k \in DOMAIN config_api THEN config_api[k]
    ELSE BuiltInDefaults[k]

C15_ParameterPrecedence ==
    \A t \in Threads :
        /\ \A i \in 1..Len(outbound[t]) : \A k \in ParamNames :
               outbound[t][i][k] = Resolved(t, k)
        /\ \A i \in 1..Len(log[t]) : log[t][i] # UnexpectedKeywordError

-----------------------------------------------------------------------------
(* C16: on a text with one or more fenced blocks the extractor's candidate *)
(* content is the content of the first fenced block in source order,       *)
(* tagged json or untagged; on a text without a fenced block it is the     *)
(* entire raw text (a first block without content is read here as no      *)
(* block at all, which is what the code does with it).                     *)

ExtractorCalled ==
    ext_pc # "input" /\ ext_processor = "CodeBlockExtractorProcessor"

FencePositions(s) == {i \in 1..Len(s) : s[i] = Fence}

HasFencedBlock(s) == Cardinality(FencePositions(s)) >= 2

\* what stands between the first fence and the fence that closes it, without
\* the tag and the surrounding whitespace
FirstBlockContent(s) ==
    LET a == CHOOSE x \in FencePositions(s) :
                 \A y \in FencePositions(s) : x <= y
        b == CHOOSE x \in FencePositions(s) \ {a} :
                 \A y \in FencePositions(s) \ {a} : x <= y
        inner == SubSeq(s, a + 1, b - 1)
    IN strip(IF inner # <<>> /\ inner[1] = JsonTag THEN Tail(inner) ELSE inner)

C16_FirstBlockIsCandidate ==
    (ExtractorCalled /\ ~extract_json /\ text # <<>>) =>
        ext_result =
            Return(PyStr(IF HasFencedBlock(text)
                            /\ FirstBlockContent(text) # <<>>
                         THEN FirstBlockContent(text)
                         ELSE text))

-----------------------------------------------------------------------------
(* C17: with JSON parsing enabled, process never raises on a raw response  *)
(* whose candidate content is not valid JSON: it returns the candidate     *)
(* string unchanged.                                                       *)

C17_ParseFailureReturnsText ==
    (ExtractorCalled /\ extract_json /\ text # <<>>) =>
        /\ ~Raises(ext_result)
        /\ json_loads(Candidate(text)) = JSONDecodeError =>
               ext_result = Return(PyStr(Candidate(text)))

C17_Witness ==
    /\ ExtractorCalled
    /\ extract_json
    /\ text = <<"not json">>
    /\ ext_result = Return(PyStr(<<"not json">>))

-----------------------------------------------------------------------------
(* C18, as stated: extracting from an empty raw response returns the empty *)
(* mapping and never raises, for every extractor of the pipeline,          *)
(* including the one used when no processor is configured.                 *)

C18_Original ==
    (ext_pc # "input" /\ text = <<>>) => ext_result = Return(PyDict(<<>>))

(* C18, amended: CodeBlockExtractorProcessor returns the empty mapping for *)
(* an empty raw response and never raises; DefaultProcessor, the one used  *)
(* when no processor is configured, raises ValueError('Empty response from *)
(* model') for it.                                                         *)

C18_EmptyResponse ==
    (ext_pc # "input" /\ text = <<>>) =>
        ext_result = IF ext_processor = "CodeBlockExtractorProcessor"
                     THEN Return(PyDict(<<>>))
                     ELSE Raise(EmptyResponseError)

C18_Witness ==
    /\ ExtractorCalled
    /\ text = <<>>
    /\ extract_json
    /\ ext_result = Return(PyDict(<<>>))

-----------------------------------------------------------------------------
(* C19: for every text J that parses as a JSON object, process(J) and      *)
(* process of J wrapped in a fenced block, tagged json or untagged, return *)
(* the same parsed structure.                                              *)

C19_WrappingIsNeutral ==
    (/\ ext_pc = "wrapped"
     /\ ext_processor = "CodeBlockExtractorProcessor"
     /\ extract_json
     /\ json_loads(text)[1] = "dict") =>
        /\ ext_wrapped[1] = ext_result
        /\ ext_wrapped[2] = ext_result

-----------------------------------------------------------------------------
(* C20: smart_format, given a template and a variable mapping that lacks   *)
(* at least one placeholder name of the template, raises the               *)
(* missing-variable error naming a missing key and returns no formatted    *)
(* string. A placeholder is {name}; doubled braces are literal braces.     *)

\* the template read from left to right: doubled braces are skipped, a
\* single brace opens a placeholder that a single brace closes
RECURSIVE WellFormed(_)
WellFormed(s) ==
    IF s = <<>> THEN TRUE
    ELSE IF Len(s) >= 2 /\ s[1] \in Braces /\ s[2] = s[1]
         THEN WellFormed(Tail(Tail(s)))
    ELSE IF s[1] = "{"
         THEN /\ Len(s) >= 3
              /\ s[2] \notin Braces
              /\ s[3] = "}"
              /\ WellFormed(SubSeq(s, 4, Len(s)))
    ELSE IF s[1] = "}" THEN FALSE
    ELSE WellFormed(Tail(s))

\* the placeholder names of a well-formed template
RECURSIVE Placeholders(_)
Placeholders(s) ==
    IF s = <<>> THEN {}
    ELSE IF Len(s) >= 2 /\ s[1] \in Braces /\ s[2] = s[1]
         THEN Placeholders(Tail(Tail(s)))
    ELSE IF s[1] = "{" THEN {s[2]} \cup Placeholders(SubSeq(s, 4, Len(s)))
    ELSE Placeholders(Tail(s))

C20_MissingVariableNamed ==
    (/\ fmt_pc = "done"
     /\ WellFormed(fmt_template)
     /\ Placeholders(fmt_template) \ DOMAIN fmt_variables # {}) =>
        \E name \in Placeholders(fmt_template) \ DOMAIN fmt_variables :
            fmt_result = Raise(KeyErrorOf(name))

-----------------------------------------------------------------------------
\* the one template in memory for the whole of the finished format_prompt
\* call
FormattedTemplate == CHOOSE t \in fp_seen : TRUE

\* a format_prompt call has finished and no reload changed the template
\* while it ran
FormatPromptDone == fp_pc = "done" /\ Cardinality(fp_seen) = 1

\* a well-formed template with the supplied variables substituted and every
\* other placeholder left as it is written
RECURSIVE LenientFormat(_, _)
LenientFormat(s, variables) ==
    IF s = <<>> THEN <<>>
    ELSE IF Len(s) >= 2 /\ s[1] \in Braces /\ s[2] = s[1]
         THEN <<s[1]>> \o LenientFormat(Tail(Tail(s)), variables)
    ELSE IF s[1] = "{"
         THEN (IF s[2] \in DOMAIN variables THEN <<variables[s[2]]>>
               ELSE SubSeq(s, 1, 3))
              \o LenientFormat(SubSeq(s, 4, Len(s)), variables)
    ELSE <<s[1]>> \o LenientFormat(Tail(s), variables)

\* C21: format_prompt, given a record that lacks some of the template's
\* placeholder names, returns the prompt with the supplied variables
\* substituted and every unsupplied placeholder left verbatim, instead of
\* failing.
C21_LenientFormat ==
    (/\ FormatPromptDone
     /\ FormattedTemplate # <<>>
     /\ Placeholders(FormattedTemplate) \ DOMAIN fp_variables # {}) =>
        fp_result = Return(LenientFormat(FormattedTemplate, fp_variables))

-----------------------------------------------------------------------------
\* C22: get_required_variables returns each placeholder name of the current
\* template exactly once, also when a name occurs several times in the
\* template.
C22_RequiredVariablesOnce ==
    req_result # <<>> =>
        LET names == req_result[2] IN
        /\ {names[i] : i \in 1..Len(names)} = Placeholders(req_template)
        /\ \A i, j \in 1..Len(names) : names[i] = names[j] => i = j

-----------------------------------------------------------------------------
\* C23: while reload_template runs concurrently with format_prompt calls on
\* the same prompter, every format_prompt call formats either the complete
\* old template or the complete new template, never a partially updated or
\* absent one: its result is the result of format_prompt on one of the
\* templates that were in memory while it ran.
C23_FormatSeesOneTemplate ==
    fp_pc = "done" =>
        \E t \in fp_seen : fp_result = format_prompt(t, fp_variables)

-----------------------------------------------------------------------------
\* C30: if reload_template fails (template source missing or unreadable), it
\* raises and the in-memory template stays what it was before the call, so
\* a format_prompt call made afterwards still uses the previously loaded
\* template.
C30_FailedReloadKeepsTemplate ==
    (rl_calls > 0 /\ Raises(rl_result)) =>
        /\ rl_result[2] \in {FileNotFoundError, IOError}
        /\ template = rl_before
        /\ (fp_pc = "done" /\ fp_at = rl_calls) =>
               fp_result = format_prompt(rl_before, fp_variables)

C30_Witness ==
    /\ rl_result = Raise(FileNotFoundError)
    /\ template_file = <<"missing">>
    /\ rl_before = Lit("Define ") \o Var("word")
    /\ fp_pc = "done"
    /\ fp_at = rl_calls
    /\ fp_result = Return(<<"Define ", "cat">>)

-----------------------------------------------------------------------------
\* the constructor has run and no schema could be loaded: none was passed
\* and the schema file is not configured, missing or unreadable
NoSchemaLoadable ==
    /\ jv_pc # "config"
    /\ ~Truthy(jv_schema_arg)
    /\ jv_schema_file[1] \in {"none", "missing", "unreadable"}

\* C24: when require_schema is true and no schema could be loaded (schema
\* path given but missing or unreadable, or no schema supplied at all),
\* constructing JsonResponseValidator fails with a distinct error, so that
\* the condition does not first appear at a validate call.
C24_RequiredSchemaAtConstruction ==
    (jv_require /\ NoSchemaLoadable) => jv_built = Raise(SchemaLoadError)

-----------------------------------------------------------------------------
\* C25: for every candidate value an extractor can produce, validate returns
\* a boolean and does not raise; a string candidate that fails to parse as
\* JSON yields false.
C25_ValidateNeverRaises ==
    jv_pc = "called" =>
        /\ jv_verdict \in {Return(TRUE), Return(FALSE)}
        /\ (jv_value[1] = "str" /\ json_loads(jv_value[2]) = JSONDecodeError)
               => jv_verdict = Return(FALSE)

-----------------------------------------------------------------------------
\* C26: one handle() call invokes the prompter's format exactly once, before
\* the first generate, and passes the identical prompt to every generate
\* attempt of that call: formatting is entered only when handle() is
\* entered, never from inside the retry loop, and every generate receives
\* the prompt that one format_prompt call returned.
C26_FormatOnce ==
    [][\A t \in active :
        /\ pc'[t] = "format" =>
               pc[t] \in {"idle", "returned", "raised", "format"}
        /\ pc[t] = "format" => genCalls[t] = 0
        /\ GenerateStep(t) =>
               /\ formatted_prompt[t]
                     = format_prompt(template, input_data[t])[2]
               /\ genPrompts'[t] = {formatted_prompt[t]}]_vars

C26_Witness ==
    /\ pc[1] = "returned"
    /\ genCalls[1] = 3
    /\ Len(sleeps[1]) = 2
    /\ genPrompts[1] = {<<"Define ", "cat">>}

-----------------------------------------------------------------------------
\* the failed attempts of the call so far whose error is one of E
Failed(t, E) == Cardinality({i \in 1..Len(log[t]) : log[t][i] \in E})

\* 1 when the call stands right before the stage, the stage of the current
\* attempt not yet invoked
Before(t, stage) == IF pc[t] = stage THEN 1 ELSE 0

\* C27: within each attempt the stages run in the order generate, extract,
\* validate, and a stage is invoked only if the previous stage of the same
\* attempt succeeded: every attempt has one generate, the extractor has been
\* called once for each generate that succeeded and the validator once for
\* each extraction that succeeded, never for an attempt whose generate or
\* extract failed.
C27_StageOrder ==
    \A t \in active :
        /\ genCalls[t] - Len(log[t])
              = (IF pc[t] \in {"process", "validate", "returned"} THEN 1 ELSE 0)
        /\ procCalls[t] + Before(t, "process")
              = genCalls[t] - Failed(t, {GenerationError})
        /\ valCalls[t] + Before(t, "validate")
              = procCalls[t] - Failed(t, ExtractErrors)
        /\ valCalls[t] <= procCalls[t] /\ procCalls[t] <= genCalls[t]

C27_Witness ==
    /\ pc[1] = "returned"
    /\ log[1] = <<GenerationError, ProcessorError>>
    /\ genCalls[1] = 3
    /\ procCalls[1] = 2
    /\ valCalls[1] = 1

-----------------------------------------------------------------------------
\* the call has entered its retry loop, or left it
PastFormat(t) == InLoop(t) \/ pc[t] = "returned" \/ Exhausted(t)

Min(a, b) == IF a <= b THEN a ELSE b

\* the sleeps made and the one about to be made
SleepsDue(t) == Len(sleeps[t]) + Before(t, "sleep")

\* C28 as stated: a sleep of sleep_time follows each failed attempt except
\* the last one of the budget and never a successful attempt; a call that
\* exhausts its budget has slept exactly max_attempts - 1 times.
C28_Original ==
    \A t \in active :
        PastFormat(t) =>
            /\ \A i \in 1..Len(sleeps[t]) : sleeps[t][i] = sleep_time
            /\ SleepsDue(t) = Min(Len(log[t]), retries - 1)
            /\ Exhausted(t) => Len(sleeps[t]) = retries - 1

\* C28 amended: the same for a budget of at least one attempt; with a
\* budget of 0 the call raises without an attempt and without a sleep.
C28_BackoffSleeps ==
    \A t \in active :
        PastFormat(t) =>
            /\ \A i \in 1..Len(sleeps[t]) : sleeps[t][i] = sleep_time
            /\ retries >= 1 =>
                   /\ SleepsDue(t) = Min(Len(log[t]), retries - 1)
                   /\ Exhausted(t) => Len(sleeps[t]) = retries - 1
            /\ retries = 0 => sleeps[t] = <<>> /\ log[t] = <<>>

C28_Witness ==
    /\ Exhausted(1)
    /\ retries = 3
    /\ sleep_time = 1
    /\ log[1] = <<ProcessorError, InvalidResponseError, GenerationError>>
    /\ sleeps[1] = <<1, 1>>

-----------------------------------------------------------------------------
\* no call has made more attempts than the budget allows
AttemptsWithinBudget ==
    \A t \in active :
        PastFormat(t) =>
            /\ genCalls[t] <= retries
            /\ Len(log[t]) <= retries
            /\ attempt[t] = Len(log[t])

\* C29: provided every generate, extract and validate call itself returns or
\* raises, every handle() call terminates, returning a value or raising,
\* after at most max_attempts attempts, for every pattern of stage failures
\* and every configured max_attempts.
C29_HandleTerminates ==
    /\ []AttemptsWithinBudget
    /\ \A t \in Threads :
          (t \in active /\ pc[t] = "format")
              ~> (pc[t] \in {"returned", "raised"} /\ outcome[t] # <<>>)

C29_Witness ==
    /\ Exhausted(1)
    /\ retries = 2
    /\ genCalls[1] = 2
    /\ log[1] = <<ProcessorError, InvalidResponseError>>

====
